---- MODULE Spec2Model ----
(***************************************************************************)
(* Presensi-Apel-2: the IndexedDB record store (src/db.ts) and the check-in *)
(* flows of the App component that use it (src/components/Scanner.tsx,      *)
(* which also holds App.tsx from line 121 on).                              *)
(*                                                                          *)
(* The IndexedDB engine is modelled at the granularity the code observes:   *)
(* every call opens its own transaction with one request; transactions on   *)
(* the one object store run in the order they were created (queue), and a   *)
(* request settles by firing onsuccess or onerror. A request that fires     *)
(* onerror leaves the store as it was. Promise continuations run as         *)
(* microtasks right after the callback, so a settle step includes the       *)
(* continuation of the caller that awaited it.                              *)
(***************************************************************************)
EXTENDS Integers, Sequences, FiniteSets, TLC

\* ------------------------------------------------------------- bounds
\* The number of times the scanner is switched on in one behaviour.
MaxMounts == 2
\* The clock takes the values 1 .. MaxTime during the session; records of an
\* earlier session carry time 0.
MaxTime == 2
\* The number of calls of db.ts functions by the API-level caller in one behaviour.
MaxCalls == 3
\* The number of handler calls by the user and the scanner in one behaviour.
MaxEvents == 2
\* The number of keys of the stores that GetAll is tried on alone.
MaxStored == 3

NIKs == {1, 2}
Names == {"Jane", "Alan"}
Times == 0 .. MaxTime

\* Attendee (types.ts, used at db.ts:37): { NIK, Nama, timestamp }
Attendee == [NIK : NIKs, Nama : Names, timestamp : Times]

NONE == [none |-> TRUE]

VARIABLES
  db,              \* db.ts:7   module handle; FALSE = undefined
  schema,          \* the 'attendees' object store exists in AttendanceDB (persisted)
  records,         \* the objects held by the object store (persisted)
  opens,           \* pending indexedDB.open requests, each with its caller
  openCount,       \* number of indexedDB.open requests issued so far
  queue,           \* pending transactions on the store, in creation order
  last,            \* the latest outcome a store request delivered to the API-level caller
  prev,            \* the outcome delivered to it before that one
  ev,              \* the step just taken: handler or callback, its input, its synchronous outcome
  calls,           \* number of calls made so far by the API-level caller, the user and the scanner
  attendanceList,  \* Scanner.tsx:180
  notification,    \* Scanner.tsx:181
  isProcessingScan,\* Scanner.tsx:194
  scanTimers,      \* pending setTimeout callbacks of Scanner.tsx:307
  isDbInitialized, \* Scanner.tsx:189
  loaded,          \* outcome of the load of Scanner.tsx:200-205: "none", "ok" or "failed"
  showClearConfirm,\* Scanner.tsx:184
  showDeleteConfirm,\* Scanner.tsx:185
  attendeeToDelete,\* Scanner.tsx:186; 0 = null
  now,             \* the clock read by new Date()
  searchQuery,     \* Scanner.tsx:187
  sortKey,         \* Scanner.tsx:190
  sortOrder,       \* Scanner.tsx:191
  csvContent,      \* Scanner.tsx:367 the document of the latest export; NONE before one
  isScannerActive, \* Scanner.tsx:192
  effects          \* the runs of the Scanner's effect (Scanner.tsx:15-98) so far, each
                   \* with its closure and its Html5Qrcode object

dbVars == <<db, schema, records, opens, openCount, queue, last, prev>>
dialogVars == <<showClearConfirm, showDeleteConfirm, attendeeToDelete>>
scanVars == <<isProcessingScan, scanTimers>>
appVars == <<attendanceList, notification, isProcessingScan, scanTimers, isDbInitialized, loaded,
             showClearConfirm, showDeleteConfirm, attendeeToDelete, now>>
viewVars == <<searchQuery, sortKey, sortOrder, csvContent>>
\* What the store and the check-in handlers leave alone.
scannerVars == <<isScannerActive, effects>>
uiVars == <<viewVars, scannerVars>>
\* The program's state, without the label of the step
stateVars == <<db, schema, records, opens, openCount, queue, last, prev, calls,
               attendanceList, notification, isProcessingScan, scanTimers, isDbInitialized,
               loaded, showClearConfirm, showDeleteConfirm, attendeeToDelete, now, uiVars>>
vars == <<stateVars, ev>>

\* ------------------------------------------------------------- helpers
Keys(S) == {r.NIK : r \in S}
Range(s) == {s[i] : i \in 1 .. Len(s)}
Min(S) == CHOOSE x \in S : \A y \in S : x <= y

\* ------------------------------------------------------------- IndexedDB requests

\* store.put(attendee) on a store created with keyPath 'NIK' (db.ts:30, db.ts:44):
\* the object replaces whatever is stored under its key.
IDBPutNoKey(store, attendee) == store \cup {attendee}
IDBPutKeepOld(store, attendee) ==
  IF attendee.NIK \in Keys(store) THEN store ELSE store \cup {attendee}
IDBPut(store, attendee) == {r \in store : r.NIK # attendee.NIK} \cup {attendee}

\* store.delete(nik) (db.ts:88): removes the object under the key; the request
\* succeeds whether or not the key was present.
IDBDeleteStrict(store, nik) ==
  IF nik \in Keys(store) THEN [ok |-> TRUE, store |-> {r \in store : r.NIK # nik}]
  ELSE [ok |-> FALSE, store |-> store]
IDBDelete(store, nik) == [ok |-> TRUE, store |-> {r \in store : r.NIK # nik}]

\* store.clear() (db.ts:108)
IDBClearNothing(store) == store
IDBClear(store) == {}

\* store.getAll() (db.ts:64): the objects in ascending key order.
RECURSIVE IDBGetAll(_)
IDBGetAll(store) ==
  IF store = {} THEN <<>>
  ELSE LET k == Min(Keys(store))
           r == CHOOSE x \in store : x.NIK = k
       IN <<r>> \o IDBGetAll(store \ {r})

\* db.ts:68-70 the comparator of getAllAttendees: timestamp descending
ByTimestampAsc(a, b) == a.timestamp - b.timestamp
ByTimestampDesc(a, b) == b.timestamp - a.timestamp

\* ------------------------------------------------------------- strings
\* In the list view and the export a string is the sequence of its characters.

\* String.prototype.toLowerCase on one character (Scanner.tsx:427-428)
LowerChar(c) == CASE c = "A" -> "a" [] c = "B" -> "b" [] OTHER -> c

RECURSIVE ToLowerCase(_)
ToLowerCase(s) ==
  IF s = <<>> THEN <<>> ELSE <<LowerChar(Head(s))>> \o ToLowerCase(Tail(s))

\* String.prototype.includes (Scanner.tsx:427-428): q occurs in s at some offset
RECURSIVE Includes(_, _)
Includes(s, q) ==
  IF Len(q) > Len(s) THEN FALSE
  ELSE IF SubSeq(s, 1, Len(q)) = q THEN TRUE
       ELSE Includes(Tail(s), q)

\* The collation weights String.prototype.localeCompare works with: letters
\* rank by the letter first, whatever the case; punctuation comes before
\* digits, digits before letters; between strings of equal letters a
\* lower-case letter comes first.
Weight(level, c) ==
  IF level = "primary"
  THEN CASE c = "\"" -> 1 [] c = "," -> 2 [] c = "1" -> 3 [] c = "2" -> 4
         [] c \in {"a", "A"} -> 5 [] c \in {"b", "B"} -> 6 [] OTHER -> 7
  ELSE IF c \in {"A", "B"} THEN 1 ELSE 0

RECURSIVE LevelCompare(_, _, _)
LevelCompare(level, a, b) ==
  IF a = <<>> THEN (IF b = <<>> THEN 0 ELSE -1)
  ELSE IF b = <<>> THEN 1
  ELSE IF Weight(level, Head(a)) # Weight(level, Head(b))
       THEN Weight(level, Head(a)) - Weight(level, Head(b))
       ELSE LevelCompare(level, Tail(a), Tail(b))

\* String.prototype.localeCompare (Scanner.tsx:436)
LocaleCompare(a, b) ==
  IF LevelCompare("primary", a, b) # 0
  THEN LevelCompare("primary", a, b)
  ELSE LevelCompare("tertiary", a, b)

\* Scanner.tsx:359 the comparator of the export: timestamp ascending
ByCheckInTime(a, b) == a.timestamp - b.timestamp

\* Scanner.tsx:431-443 the comparator of the list view
ByView(a, b) ==
  LET comparison == CASE sortKey \in {"Nama", "NIK"} -> LocaleCompare(a[sortKey], b[sortKey])
                      [] sortKey = "timestamp" -> a.timestamp - b.timestamp
  IN IF sortOrder = "asc" THEN comparison ELSE 0 - comparison

\* The comparator each sort of the program passes to Array.prototype.sort
Compare(which, a, b) ==
  CASE which = "getAll" -> ByTimestampDesc(a, b)
    [] which = "export" -> ByCheckInTime(a, b)
    [] which = "view" -> ByView(a, b)
    [] OTHER -> 0

\* Array.prototype.sort (db.ts:68): stable; an element moves left past those
\* the comparator puts after it.
RECURSIVE Insert(_, _, _)
Insert(x, s, which) ==
  IF s = <<>> THEN <<x>>
  ELSE IF Compare(which, s[Len(s)], x) > 0
       THEN Insert(x, SubSeq(s, 1, Len(s) - 1), which) \o <<s[Len(s)]>>
       ELSE s \o <<x>>

RECURSIVE Sort(_, _)
Sort(s, which) ==
  IF s = <<>> THEN <<>>
  ELSE Insert(s[Len(s)], Sort(SubSeq(s, 1, Len(s) - 1), which), which)

\* ------------------------------------------------------------- db.ts

\* A request as the engine holds it: the operation, its argument and the caller
\* whose promise it settles.
Request(op, arg, ctx) == [op |-> op, arg |-> arg, ctx |-> ctx]

\* What the synchronous part of a db.ts function did: it settled the promise
\* at once (status, value) or started a request (status "pending").
Settled(status, value) == [status |-> status, value |-> value]
Pending == [status |-> "pending", value |-> NONE]

\* The outcome of a request: the promise's status and value, and the store after it.
Outcome(status, value, store) == [status |-> status, value |-> value, store |-> store]

NoRequest == [op |-> "none", arg |-> NONE, status |-> "none", value |-> NONE, old |-> {}]

\* db.ts:9-35 initDB, the synchronous part: with the handle set it resolves at
\* once, otherwise it issues indexedDB.open.
initDBAlwaysOpen == Pending
initDB == IF db THEN Settled("ok", TRUE) ELSE Pending

\* db.ts:37-44, 57-64, 81-88, 101-108: each function rejects at once while the
\* handle is unset, and otherwise starts a transaction with one request.
GuardedNoCheck == Pending
Guarded == IF ~db THEN Settled("DB not initialized", NONE) ELSE Pending

addAttendee(attendee) == Guarded
getAllAttendees == Guarded
deleteAttendee(nik) == Guarded
clearAttendees == Guarded

\* db.ts:46-53 addAttendee: onsuccess resolves with the attendee passed in,
\* onerror rejects.
addAttendeeDone(attendee, fault) ==
  IF fault THEN Outcome("Error adding attendee", NONE, records)
  ELSE Outcome("ok", attendee, IDBPut(records, attendee))

\* db.ts:66-77 getAllAttendees: onsuccess sorts request.result and resolves with it.
getAllAttendeesDone(fault) ==
  IF fault THEN Outcome("Error getting all attendees", NONE, records)
  ELSE Outcome("ok", Sort(IDBGetAll(records), "getAll"), records)

\* db.ts:90-97 deleteAttendee
deleteAttendeeDone(nik, fault) ==
  LET d == IDBDelete(records, nik)
  IN IF fault \/ ~d.ok THEN Outcome("Error deleting attendee", NONE, records)
     ELSE Outcome("ok", nik, d.store)

\* db.ts:110-117 clearAttendees
clearAttendeesDone(fault) ==
  IF fault THEN Outcome("Error clearing attendees", NONE, records)
  ELSE Outcome("ok", NONE, IDBClear(records))

Done(req, fault) ==
  CASE req.op = "put" -> addAttendeeDone(req.arg, fault)
    [] req.op = "getAll" -> getAllAttendeesDone(fault)
    [] req.op = "delete" -> deleteAttendeeDone(req.arg, fault)
    [] req.op = "clear" -> clearAttendeesDone(fault)

\* The stored objects a request is about, before it runs: those under the key
\* it names, or all of them for clear.
Old(req) ==
  CASE req.op = "put" -> {r \in records : r.NIK = req.arg.NIK}
    [] req.op = "delete" -> {r \in records : r.NIK = req.arg}
    [] req.op = "clear" -> records
    [] OTHER -> {}

\* A step: the function, handler or callback that ran, its input, its
\* synchronous outcome, and whether the engine failed the request (onerror).
Event(act, arg, res) == [act |-> act, arg |-> arg, res |-> res, fault |-> FALSE]
Callback(act, arg, res, fault) == [act |-> act, arg |-> arg, res |-> res, fault |-> fault]

\* ------------------------------------------------------------- App: inputs

\* A decoded QR text: either text that JSON.parse rejects, or the JSON text of
\* an object with the fields NIK and Nama, where 0 and "" stand for a field
\* that is missing or empty.
ScanTexts == {[json |-> FALSE, NIK |-> 0, Nama |-> ""]}
             \cup [json : {TRUE}, NIK : NIKs \cup {0}, Nama : Names \cup {""}]

\* Scanner.tsx:252 JSON.parse(decodedText): throws, or gives the object.
JSONParse(decodedText) ==
  IF decodedText.json
  THEN [ok |-> TRUE, data |-> [NIK |-> decodedText.NIK, Nama |-> decodedText.Nama]]
  ELSE [ok |-> FALSE, data |-> NONE]

\* A check that asks for the NIK only.
IsValidPayloadNIKOnly(parsed) == parsed.ok /\ parsed.data.NIK # 0

\* Scanner.tsx:252-255: JSON.parse did not throw, and neither !data.NIK nor
\* !data.Nama holds.
IsValidPayload(parsed) == parsed.ok /\ parsed.data.NIK # 0 /\ parsed.data.Nama # ""

\* The text of a form field: its content, with or without blanks around it
\* (content 0 or "" is the empty string).
FieldNIK == [pad : BOOLEAN, core : NIKs \cup {0}]
FieldNama == [pad : BOOLEAN, core : Names \cup {""}]

\* String.prototype.trim (Scanner.tsx:322, 327, 328)
Trim(field) == field.core

\* Scanner.tsx:238-243 showNotification: the banner it sets
Notification(message, type) == [message |-> message, type |-> type]

\* Scanner.tsx:257 and 330: attendanceList.some(attendee => attendee.NIK === nik)
IsDuplicateNever(list, nik) == FALSE
IsDuplicate(list, nik) == \E i \in 1 .. Len(list) : list[i].NIK = nik

\* Scanner.tsx:404 prevList.filter(attendee => attendee.NIK !== nik)
RECURSIVE Without(_, _)
Without(list, nik) ==
  IF list = <<>> THEN <<>>
  ELSE IF Head(list).NIK # nik THEN <<Head(list)>> \o Without(Tail(list), nik)
       ELSE Without(Tail(list), nik)

\* ------------------------------------------------------------- continuations

\* A handleScanSuccess whose finally block sets no timer.
ScanPutSettledNoTimer(attendee, status) ==
  /\ IF status = "ok"
     THEN /\ attendanceList' = <<attendee>> \o attendanceList
          /\ notification' = Notification("Welcome", "success")
     ELSE /\ attendanceList' = attendanceList
          /\ notification' = Notification("Failed to parse QR code", "error")
  /\ UNCHANGED <<isProcessingScan, scanTimers, isDbInitialized, loaded, now>>
  /\ UNCHANGED dialogVars

\* Scanner.tsx:278-279 (put resolved), 293-295 (put rejected), 306-310 (finally)
ScanPutSettled(attendee, status) ==
  /\ IF status = "ok"
     THEN /\ attendanceList' = <<attendee>> \o attendanceList
          /\ notification' = Notification("Welcome", "success")
     ELSE /\ attendanceList' = attendanceList
          /\ notification' = Notification("Failed to parse QR code", "error")
  /\ scanTimers' = scanTimers + 1
  /\ UNCHANGED <<isProcessingScan, isDbInitialized, loaded, now>>
  /\ UNCHANGED dialogVars

\* A handleManualAdd that prepends the record before it knows the Put's outcome.
ManualPutSettledOptimistic(attendee, status) ==
  /\ attendanceList' = <<attendee>> \o attendanceList
  /\ notification' = IF status = "ok" THEN Notification("Welcome", "success")
                     ELSE Notification("Failed to save attendee", "error")
  /\ UNCHANGED <<isDbInitialized, loaded, now>>
  /\ UNCHANGED scanVars
  /\ UNCHANGED dialogVars

\* Scanner.tsx:343-349
ManualPutSettled(attendee, status) ==
  /\ IF status = "ok"
     THEN /\ attendanceList' = <<attendee>> \o attendanceList
          /\ notification' = Notification("Welcome", "success")
     ELSE /\ attendanceList' = attendanceList
          /\ notification' = Notification("Failed to save attendee", "error")
  /\ UNCHANGED <<isDbInitialized, loaded, now>>
  /\ UNCHANGED scanVars
  /\ UNCHANGED dialogVars

\* A load without its catch(): a failed GetAll goes unnoticed.
LoadSettledSilent(status, attendees) ==
  /\ attendanceList' = IF status = "ok" THEN attendees ELSE attendanceList
  /\ notification' = notification
  /\ loaded' = IF status = "ok" THEN "ok" ELSE "failed"
  /\ UNCHANGED <<isDbInitialized, now>>
  /\ UNCHANGED scanVars
  /\ UNCHANGED dialogVars

\* Scanner.tsx:200-205
LoadSettled(status, attendees) ==
  /\ IF status = "ok"
     THEN /\ attendanceList' = attendees
          /\ notification' = notification
     ELSE /\ attendanceList' = attendanceList
          /\ notification' = Notification("Could not load saved attendance data", "error")
  /\ loaded' = IF status = "ok" THEN "ok" ELSE "failed"
  /\ UNCHANGED <<isDbInitialized, now>>
  /\ UNCHANGED scanVars
  /\ UNCHANGED dialogVars

\* Scanner.tsx:386-391
ClearSettled(status) ==
  /\ IF status = "ok"
     THEN /\ attendanceList' = <<>>
          /\ showClearConfirm' = FALSE
          /\ notification' = Notification("Attendance list has been cleared", "success")
     ELSE /\ attendanceList' = attendanceList
          /\ showClearConfirm' = showClearConfirm
          /\ notification' = Notification("Failed to clear attendance list", "error")
  /\ UNCHANGED <<isDbInitialized, loaded, now, showDeleteConfirm, attendeeToDelete>>
  /\ UNCHANGED scanVars

\* A handleConfirmDelete that drops the record from the list whether or not the
\* store deleted it.
DeleteSettledOptimistic(nik, status) ==
  /\ attendanceList' = Without(attendanceList, nik)
  /\ showDeleteConfirm' = FALSE
  /\ attendeeToDelete' = 0
  /\ notification' = Notification("has been removed", "success")
  /\ UNCHANGED <<isDbInitialized, loaded, now, showClearConfirm>>
  /\ UNCHANGED scanVars

\* Scanner.tsx:404-410
DeleteSettled(nik, status) ==
  /\ IF status = "ok"
     THEN /\ attendanceList' = Without(attendanceList, nik)
          /\ showDeleteConfirm' = FALSE
          /\ attendeeToDelete' = 0
          /\ notification' = Notification("has been removed", "success")
     ELSE /\ attendanceList' = attendanceList
          /\ showDeleteConfirm' = showDeleteConfirm
          /\ attendeeToDelete' = attendeeToDelete
          /\ notification' = Notification("Failed to remove attendee", "error")
  /\ UNCHANGED <<isDbInitialized, loaded, now, showClearConfirm>>
  /\ UNCHANGED scanVars

\* What the caller awaiting a store request does when it settles.
Continue(req, out) ==
  CASE req.ctx = "api" ->
         /\ prev' = last
         /\ last' = [op |-> req.op, arg |-> req.arg, status |-> out.status,
                     value |-> out.value, old |-> Old(req)]
         /\ UNCHANGED appVars
    [] req.ctx = "scan" -> ScanPutSettled(req.arg, out.status) /\ UNCHANGED <<last, prev>>
    [] req.ctx = "manual" -> ManualPutSettled(req.arg, out.status) /\ UNCHANGED <<last, prev>>
    [] req.ctx = "load" -> LoadSettled(out.status, out.value) /\ UNCHANGED <<last, prev>>
    [] req.ctx = "confirmClear" -> ClearSettled(out.status) /\ UNCHANGED <<last, prev>>
    [] req.ctx = "confirmDelete" -> DeleteSettled(req.arg, out.status) /\ UNCHANGED <<last, prev>>

\* What the caller of initDB does when the open request settles.
ContinueOpen(ctx, ok) ==
  CASE ctx = "api" ->
         /\ UNCHANGED <<queue, last, prev>>
         /\ UNCHANGED appVars
    [] ctx = "init" ->
         \* Scanner.tsx:198-209: then() sets the flag and loads the list,
         \* catch() shows the notification
         /\ IF ok
            THEN /\ isDbInitialized' = TRUE
                 /\ queue' = Append(queue, Request("getAll", NONE, "load"))
                 /\ notification' = notification
            ELSE /\ isDbInitialized' = isDbInitialized
                 /\ queue' = queue
                 /\ notification' = Notification("Offline storage is not available", "error")
         /\ UNCHANGED <<attendanceList, loaded, now, last, prev>>
         /\ UNCHANGED scanVars
         /\ UNCHANGED dialogVars

\* ------------------------------------------------------------- the engine

\* A request's onsuccess or onerror fires (db.ts:46-53, 66-77, 90-97, 110-117),
\* and the continuation of the promise runs.
Settle ==
  /\ queue # <<>>
  /\ \E fault \in BOOLEAN :
       LET req == Head(queue)
           out == Done(req, fault)
       IN /\ records' = out.store
          /\ queue' = Tail(queue)
          /\ ev' = Callback("settle", req, out.status, fault)
          /\ Continue(req, out)
  /\ UNCHANGED <<db, schema, opens, openCount, calls>>
  /\ UNCHANGED uiVars

\* db.ts:17-33 the open request settles: onerror rejects; otherwise
\* onupgradeneeded creates the store when the database is new, and onsuccess
\* sets the handle.
OpenSettle ==
  /\ opens # <<>>
  /\ opens' = Tail(opens)
  /\ \E fault \in BOOLEAN :
       /\ IF fault
          THEN UNCHANGED <<db, schema>>
          ELSE db' = TRUE /\ schema' = TRUE
       /\ ev' = Callback("open", [ctx |-> Head(opens)], IF fault THEN "Database error" ELSE "ok", fault)
       /\ ContinueOpen(Head(opens), ~fault)
  /\ UNCHANGED <<records, openCount, calls>>
  /\ UNCHANGED uiVars

\* ------------------------------------------------------------- a caller of db.ts

\* A call of a db.ts function by a caller that only awaits the result.
Call(name, arg, sync, req) ==
  /\ calls < MaxCalls
  /\ calls' = calls + 1
  /\ ev' = Event(name, arg, sync.status)
  /\ queue' = IF sync.status = "pending" THEN Append(queue, req) ELSE queue
  /\ UNCHANGED <<db, schema, records, opens, openCount, last, prev>>
  /\ UNCHANGED appVars
  /\ UNCHANGED uiVars

ApiInitDB ==
  /\ calls < MaxCalls
  /\ calls' = calls + 1
  /\ ev' = Event("initDB", NONE, initDB.status)
  /\ IF initDB.status = "pending"
     THEN opens' = Append(opens, "api") /\ openCount' = openCount + 1
     ELSE UNCHANGED <<opens, openCount>>
  /\ UNCHANGED <<db, schema, records, queue, last, prev>>
  /\ UNCHANGED appVars
  /\ UNCHANGED uiVars

ApiAdd == \E a \in Attendee : Call("addAttendee", a, addAttendee(a), Request("put", a, "api"))
ApiGetAll == Call("getAllAttendees", NONE, getAllAttendees, Request("getAll", NONE, "api"))
ApiDelete == \E n \in NIKs : Call("deleteAttendee", n, deleteAttendee(n), Request("delete", n, "api"))
ApiClear == Call("clearAttendees", NONE, clearAttendees, Request("clear", NONE, "api"))

\* ------------------------------------------------------------- App: handlers

\* A gate that never closes.
GateClosedNever == FALSE

\* Scanner.tsx:246 if (isProcessingScan.current) return;
GateClosed == isProcessingScan

\* Scanner.tsx:245-311 handleScanSuccess, up to its first await
handleScanSuccess(decodedText) ==
  LET parsed == JSONParse(decodedText)
      data == parsed.data
      newAttendee == [NIK |-> data.NIK, Nama |-> data.Nama, timestamp |-> now]
      sync == addAttendee(newAttendee)
  IN IF GateClosed
     THEN /\ ev' = Event("handleScanSuccess", decodedText, "dropped")
          /\ UNCHANGED <<queue, attendanceList, notification, isProcessingScan, scanTimers>>
     ELSE /\ isProcessingScan' = TRUE
          /\ attendanceList' = attendanceList
          /\ IF ~IsValidPayload(parsed)
             THEN /\ ev' = Event("handleScanSuccess", decodedText, "invalid")
                  /\ notification' = Notification("Failed to parse QR code", "error")
                  /\ scanTimers' = scanTimers + 1
                  /\ queue' = queue
             ELSE IF IsDuplicate(attendanceList, data.NIK)
             THEN /\ ev' = Event("handleScanSuccess", decodedText, "duplicate")
                  /\ notification' = Notification("is already checked in", "info")
                  /\ scanTimers' = scanTimers + 1
                  /\ queue' = queue
             ELSE IF sync.status # "pending"
             THEN /\ ev' = Event("handleScanSuccess", decodedText, sync.status)
                  /\ notification' = Notification("Failed to parse QR code", "error")
                  /\ scanTimers' = scanTimers + 1
                  /\ queue' = queue
             ELSE /\ ev' = Event("handleScanSuccess", decodedText, "pending")
                  /\ notification' = notification
                  /\ scanTimers' = scanTimers
                  /\ queue' = Append(queue, Request("put", newAttendee, "scan"))

\* Scanner.tsx:320-350 handleManualAdd, up to its await
handleManualAdd(manualNIK, manualNama) ==
  LET trimmedNIK == Trim(manualNIK)
      trimmedNama == Trim(manualNama)
      newAttendee == [NIK |-> trimmedNIK, Nama |-> trimmedNama, timestamp |-> now]
      sync == addAttendee(newAttendee)
      input == [NIK |-> trimmedNIK, Nama |-> trimmedNama]
  IN /\ attendanceList' = attendanceList
     /\ IF trimmedNIK = 0 \/ trimmedNama = ""
        THEN /\ ev' = Event("handleManualAdd", input, "required")
             /\ notification' = Notification("Both NIK and Nama are required", "error")
             /\ queue' = queue
        ELSE IF IsDuplicate(attendanceList, trimmedNIK)
        THEN /\ ev' = Event("handleManualAdd", input, "duplicate")
             /\ notification' = Notification("is already checked in", "info")
             /\ queue' = queue
        ELSE IF sync.status # "pending"
        THEN /\ ev' = Event("handleManualAdd", input, sync.status)
             /\ notification' = Notification("Failed to save attendee", "error")
             /\ queue' = queue
        ELSE /\ ev' = Event("handleManualAdd", input, "pending")
             /\ notification' = notification
             /\ queue' = Append(queue, Request("put", newAttendee, "manual"))

\* The user or the scanner calls a handler.
UserCall ==
  /\ calls < MaxEvents
  /\ calls' = calls + 1
  /\ UNCHANGED <<db, schema, records, opens, openCount, last, prev>>
  /\ UNCHANGED uiVars

\* The scanner delivers a decoded text (Scanner.tsx:55 onScanSuccess).
ScanSuccess ==
  /\ UserCall
  /\ \E decodedText \in ScanTexts : handleScanSuccess(decodedText)
  /\ UNCHANGED <<isDbInitialized, loaded, now>>
  /\ UNCHANGED dialogVars

\* Scanner.tsx:307-309 the timer set in finally fires.
ScanTimer ==
  /\ scanTimers > 0
  /\ scanTimers' = scanTimers - 1
  /\ isProcessingScan' = FALSE
  /\ ev' = Event("scanTimer", NONE, "ok")
  /\ UNCHANGED dbVars
  /\ UNCHANGED uiVars
  /\ UNCHANGED <<calls, attendanceList, notification, isDbInitialized, loaded, now>>
  /\ UNCHANGED dialogVars

\* The user submits the manual form (Scanner.tsx:576).
ManualAdd ==
  /\ UserCall
  /\ \E manualNIK \in FieldNIK, manualNama \in FieldNama : handleManualAdd(manualNIK, manualNama)
  /\ UNCHANGED <<isDbInitialized, loaded, now>>
  /\ UNCHANGED scanVars
  /\ UNCHANGED dialogVars

\* Scanner.tsx:639-640 the Clear button, enabled while the list is not empty
ShowClearConfirm ==
  /\ UserCall
  /\ attendanceList # <<>>
  /\ showClearConfirm' = TRUE
  /\ ev' = Event("showClearConfirm", NONE, "ok")
  /\ UNCHANGED <<queue, attendanceList, notification, isDbInitialized, loaded, now,
                 showDeleteConfirm, attendeeToDelete>>
  /\ UNCHANGED scanVars

\* Scanner.tsx:496 the dialog's Cancel button
CancelClear ==
  /\ UserCall
  /\ showClearConfirm
  /\ showClearConfirm' = FALSE
  /\ ev' = Event("cancelClear", NONE, "ok")
  /\ UNCHANGED <<queue, attendanceList, notification, isDbInitialized, loaded, now,
                 showDeleteConfirm, attendeeToDelete>>
  /\ UNCHANGED scanVars

\* Scanner.tsx:383-392 handleConfirmClear, up to its await
handleConfirmClear ==
  /\ UserCall
  /\ showClearConfirm
  /\ IF clearAttendees.status # "pending"
     THEN /\ ev' = Event("handleConfirmClear", NONE, clearAttendees.status)
          /\ notification' = Notification("Failed to clear attendance list", "error")
          /\ queue' = queue
     ELSE /\ ev' = Event("handleConfirmClear", NONE, "pending")
          /\ notification' = notification
          /\ queue' = Append(queue, Request("clear", NONE, "confirmClear"))
  /\ UNCHANGED <<attendanceList, isDbInitialized, loaded, now>>
  /\ UNCHANGED scanVars
  /\ UNCHANGED dialogVars

\* Scanner.tsx:394-397 handleDeleteRequest, from a row of the list (db.ts:177)
handleDeleteRequest ==
  /\ UserCall
  /\ \E nik \in NIKs :
       /\ IsDuplicate(attendanceList, nik)
       /\ attendeeToDelete' = nik
       /\ showDeleteConfirm' = TRUE
       /\ ev' = Event("handleDeleteRequest", [NIK |-> nik], "ok")
  /\ UNCHANGED <<queue, attendanceList, notification, isDbInitialized, loaded, now, showClearConfirm>>
  /\ UNCHANGED scanVars

\* A confirm that does not ask whether a request is pending.
HasDeleteRequestAlways == TRUE

\* Scanner.tsx:400 if (!attendeeToDelete) return;
HasDeleteRequest == attendeeToDelete # 0

\* Scanner.tsx:399-411 handleConfirmDelete, up to its await. The handler
\* itself asks only whether a request is pending (line 400), so it is tried
\* with the dialog closed as well.
handleConfirmDelete ==
  /\ UserCall
  /\ IF ~HasDeleteRequest
     THEN /\ ev' = Event("handleConfirmDelete", [NIK |-> attendeeToDelete], "none")
          /\ UNCHANGED <<notification, queue>>
     ELSE IF deleteAttendee(attendeeToDelete).status # "pending"
     THEN /\ ev' = Event("handleConfirmDelete", [NIK |-> attendeeToDelete],
                         deleteAttendee(attendeeToDelete).status)
          /\ notification' = Notification("Failed to remove attendee", "error")
          /\ queue' = queue
     ELSE /\ ev' = Event("handleConfirmDelete", [NIK |-> attendeeToDelete], "pending")
          /\ notification' = notification
          /\ queue' = Append(queue, Request("delete", attendeeToDelete, "confirmDelete"))
  /\ UNCHANGED <<attendanceList, isDbInitialized, loaded, now>>
  /\ UNCHANGED scanVars
  /\ UNCHANGED dialogVars

\* Scanner.tsx:413-416 handleCancelDelete
handleCancelDelete ==
  /\ UserCall
  /\ showDeleteConfirm
  /\ showDeleteConfirm' = FALSE
  /\ attendeeToDelete' = 0
  /\ ev' = Event("handleCancelDelete", NONE, "ok")
  /\ UNCHANGED <<queue, attendanceList, notification, isDbInitialized, loaded, now, showClearConfirm>>
  /\ UNCHANGED scanVars

\* Scanner.tsx:240-242 the timer of showNotification fires.
NotificationTimeout ==
  /\ notification # NONE
  /\ notification' = NONE
  /\ ev' = Event("notificationTimeout", NONE, "ok")
  /\ UNCHANGED dbVars
  /\ UNCHANGED uiVars
  /\ UNCHANGED <<calls, attendanceList, isDbInitialized, loaded, now>>
  /\ UNCHANGED scanVars
  /\ UNCHANGED dialogVars

\* Time passes: new Date() (Scanner.tsx:274, 338) reads a later instant.
Tick ==
  /\ now < MaxTime
  /\ now' = now + 1
  /\ ev' = Event("tick", NONE, "ok")
  /\ UNCHANGED dbVars
  /\ UNCHANGED uiVars
  /\ UNCHANGED <<calls, attendanceList, notification, isDbInitialized, loaded>>
  /\ UNCHANGED scanVars
  /\ UNCHANGED dialogVars

\* ------------------------------------------------------------- App: list view and export

\* The records the list view and the export are tried on: NIKs and names with
\* upper and lower case, a comma and a quote character.
ViewNIKs == {<<"1", "A">>, <<"2", ",">>, <<"a", "2">>}
ViewNamas == {<<"A", "b">>, <<"a", "B">>, <<"b", "\"">>}
ViewTimes == {1, 2}
ViewRecords == [NIK : ViewNIKs, Nama : ViewNamas, timestamp : ViewTimes]

\* The texts typed into the search box
Queries == {<<>>, <<"a">>, <<"A", "B">>, <<"2">>, <<"b", "b">>}

SortKeys == {"NIK", "Nama", "timestamp"}

\* A filter that compares the texts as they are.
MatchesCaseSensitive(attendee, query) ==
  Includes(attendee.Nama, query) \/ Includes(attendee.NIK, query)

\* Scanner.tsx:426-429 the predicate of the filter
Matches(attendee, query) ==
  \/ Includes(ToLowerCase(attendee.Nama), ToLowerCase(query))
  \/ Includes(ToLowerCase(attendee.NIK), ToLowerCase(query))

\* Array.prototype.filter (Scanner.tsx:425-429): a new array
RECURSIVE Filter(_, _)
Filter(list, query) ==
  IF list = <<>> THEN <<>>
  ELSE IF Matches(Head(list), query)
       THEN <<Head(list)>> \o Filter(Tail(list), query)
       ELSE Filter(Tail(list), query)

\* Scanner.tsx:424-444 the memoised projection; the sort works on a copy
sortedAndFilteredAttendees == Sort(Filter(attendanceList, searchQuery), "view")

\* A step of the list view or of the export touches neither the store nor the
\* check-in state.
ViewStep ==
  /\ UNCHANGED dbVars
  /\ UNCHANGED <<calls, attendanceList, isDbInitialized, loaded, now>>
  /\ UNCHANGED scanVars
  /\ UNCHANGED dialogVars
  /\ UNCHANGED scannerVars

\* Scanner.tsx:707 the search box changes
SetSearchQuery ==
  /\ \E q \in Queries \ {searchQuery} :
       /\ searchQuery' = q
       /\ ev' = Event("setSearchQuery", NONE, "ok")
  /\ UNCHANGED <<sortKey, sortOrder, csvContent, notification>>
  /\ ViewStep

\* Scanner.tsx:680 the sort field is chosen
SetSortKey ==
  /\ \E k \in SortKeys \ {sortKey} :
       /\ sortKey' = k
       /\ ev' = Event("setSortKey", NONE, "ok")
  /\ UNCHANGED <<searchQuery, sortOrder, csvContent, notification>>
  /\ ViewStep

\* Scanner.tsx:688 the sort direction is toggled
ToggleSortOrder ==
  /\ sortOrder' = IF sortOrder = "asc" THEN "desc" ELSE "asc"
  /\ ev' = Event("toggleSortOrder", NONE, "ok")
  /\ UNCHANGED <<searchQuery, sortKey, csvContent, notification>>
  /\ ViewStep

\* Array.prototype.join (Scanner.tsx:367-368)
RECURSIVE Join(_, _)
Join(texts, sep) ==
  IF texts = <<>> THEN <<>>
  ELSE IF Len(texts) = 1 THEN texts[1]
       ELSE texts[1] \o <<sep>> \o Join(Tail(texts), sep)

\* Nama.replace(/"/g, '""') (Scanner.tsx:363)
RECURSIVE ReplaceQuotes(_)
ReplaceQuotes(s) ==
  IF s = <<>> THEN <<>>
  ELSE (IF Head(s) = "\"" THEN <<"\"", "\"">> ELSE <<Head(s)>>) \o ReplaceQuotes(Tail(s))

\* The template literal `"${...}"` (Scanner.tsx:363-364)
InQuotes(s) == <<"\"">> \o s \o <<"\"">>

\* Date.prototype.toLocaleString (Scanner.tsx:364): a date, a comma, a time
ToLocaleString(t) == <<(IF t = 1 THEN "1" ELSE "2"), ",", " ", "9">>

\* Scanner.tsx:358
headers == <<<<"N", "I", "K">>, <<"N", "a", "m", "a">>,
             <<"T", "i", "m", "e", "s", "t", "a", "m", "p">>>>

\* Scanner.tsx:361-365 the fields of one row
Row(attendee) ==
  <<attendee.NIK, InQuotes(ReplaceQuotes(attendee.Nama)),
    InQuotes(ToLocaleString(attendee.timestamp))>>

\* Scanner.tsx:368 rows.map(e => e.join(','))
RECURSIVE Lines(_)
Lines(list) ==
  IF list = <<>> THEN <<>> ELSE <<Join(Row(Head(list)), ",")>> \o Lines(Tail(list))

\* Scanner.tsx:352-381 handleExportCSV. csvContent is the text after the
\* 'data:text/csv;charset=utf-8,' prefix, which encodeURI and the download
\* carry to the file.
handleExportCSV ==
  /\ IF attendanceList = <<>>
     THEN /\ notification' = Notification("No attendees to export", "info")
          /\ csvContent' = csvContent
          /\ ev' = Event("handleExportCSV", NONE, "empty")
     ELSE /\ csvContent' = Join(<<Join(headers, ",")>>
                                 \o Lines(Sort(attendanceList, "export")), "\n")
          /\ notification' = Notification("Attendance list exported", "success")
          /\ ev' = Event("handleExportCSV", NONE, "ok")
  /\ UNCHANGED <<searchQuery, sortKey, sortOrder>>
  /\ ViewStep

\* ------------------------------------------------------------- Scanner component

\* The props the Scanner calls (Scanner.tsx:6-10)
ScannerCallbacks == {"onScanSuccess", "onScanError", "onReady"}

\* Scanner.tsx:23-26 a run of the effect: the flag of its closure, the await
\* startScanner stands at ("getCameras", "start", or "done" once it has
\* returned), the state of its Html5Qrcode object, whether a stop() is under
\* way, and the resume timers that are set.
NewEffect ==
  [isComponentMounted |-> TRUE, pc |-> "getCameras", state |-> "NOT_STARTED",
   stopping |-> FALSE, resumeTimers |-> 0]

\* html5QrCode.isScanning (Scanner.tsx:52, 92): the object has been started
\* and not stopped; it is true while scanning is paused, and false while
\* start() has not resolved yet.
isScanning(e) == e.state # "NOT_STARTED"

\* Scanner.tsx:89-97 the cleanup the effect returns
Cleanup(e) ==
  [e EXCEPT !.isComponentMounted = FALSE, !.stopping = e.stopping \/ isScanning(e)]

\* A step of the Scanner: what it does not touch.
ScannerStep ==
  /\ UNCHANGED dbVars
  /\ UNCHANGED <<attendanceList, isDbInitialized, loaded, now>>
  /\ UNCHANGED scanVars
  /\ UNCHANGED dialogVars
  /\ UNCHANGED viewVars

\* The step of run i, with the flag of its closure as the step found it.
EffectEvent(act, i, res) ==
  Event(act, [effect |-> i, mounted |-> effects[i].isComponentMounted], res)

\* Scanner.tsx:313-318 handleScanError, called through onScanError by the run
\* that is mounted: the notification, and the scanner is switched off, which
\* unmounts the component.
handleScanError(message) ==
  /\ notification' = Notification(message, "error")
  /\ isScannerActive' = FALSE

\* Scanner.tsx:524 the Start/Stop button. Switching on mounts the Scanner,
\* whose effect runs (Scanner.tsx:15-87); switching off unmounts it, and the
\* cleanup of the mounted run is called.
ToggleScanner ==
  /\ IF isScannerActive
     THEN /\ isScannerActive' = FALSE
          /\ effects' = [effects EXCEPT ![Len(effects)] = Cleanup(@)]
          /\ ev' = EffectEvent("unmount", Len(effects), "none")
          /\ notification' = notification
     ELSE /\ Len(effects) < MaxMounts
          /\ \E library \in BOOLEAN :
               IF library
               THEN /\ isScannerActive' = TRUE
                    /\ effects' = Append(effects, NewEffect)
                    /\ ev' = Event("mount", NONE, "none")
                    /\ notification' = notification
               ELSE \* Scanner.tsx:17-21
                    /\ handleScanError("QR Code library failed to load")
                    /\ effects' = effects
                    /\ ev' = Event("mount", NONE, "onScanError")
  /\ calls' = calls
  /\ ScannerStep

\* Scanner.tsx:78-84 the catch block of startScanner in run i
StartFailed(act, i) ==
  IF effects[i].isComponentMounted
  THEN /\ handleScanError("Failed to start QR scanner")
       /\ effects' = [effects EXCEPT ![i] = Cleanup([@ EXCEPT !.pc = "done"])]
       /\ ev' = EffectEvent(act, i, "onScanError")
  ELSE /\ effects' = [effects EXCEPT ![i].pc = "done"]
       /\ ev' = EffectEvent(act, i, "none")
       /\ UNCHANGED <<notification, isScannerActive>>

\* Scanner.tsx:29-37 getCameras settles: with a camera, start() is called;
\* without one, or when it rejects, the catch block runs.
GetCamerasSettled ==
  /\ \E i \in 1 .. Len(effects) :
       /\ effects[i].pc = "getCameras"
       /\ \E cameras \in BOOLEAN :
            IF cameras
            THEN /\ effects' = [effects EXCEPT ![i].pc = "start"]
                 /\ ev' = EffectEvent("getCameras", i, "none")
                 /\ UNCHANGED <<notification, isScannerActive>>
            ELSE StartFailed("getCameras", i)
  /\ calls' = calls
  /\ ScannerStep

\* Scanner.tsx:37-77 start() settles: resolved, the camera runs and onReady is
\* called if the run is still mounted; rejected, the catch block runs.
StartSettled ==
  /\ \E i \in 1 .. Len(effects) :
       /\ effects[i].pc = "start"
       /\ \E started \in BOOLEAN :
            IF started
            THEN /\ effects' = [effects EXCEPT ![i].pc = "done", ![i].state = "SCANNING"]
                 /\ ev' = EffectEvent("start", i, IF effects[i].isComponentMounted
                                                  THEN "onReady" ELSE "none")
                 /\ UNCHANGED <<notification, isScannerActive>>
            ELSE StartFailed("start", i)
  /\ calls' = calls
  /\ ScannerStep

\* Scanner.tsx:51-68 the object of run i decodes a QR code and calls the
\* success callback.
Decoded ==
  /\ calls < MaxEvents
  /\ calls' = calls + 1
  /\ \E i \in 1 .. Len(effects) :
       /\ effects[i].state = "SCANNING"
       /\ IF effects[i].isComponentMounted /\ isScanning(effects[i])
          THEN /\ effects' = [effects EXCEPT ![i].state = "PAUSED",
                                             ![i].resumeTimers = @ + 1]
               /\ ev' = EffectEvent("decoded", i, "onScanSuccess")
          ELSE /\ effects' = effects
               /\ ev' = EffectEvent("decoded", i, "none")
  /\ UNCHANGED <<notification, isScannerActive>>
  /\ ScannerStep

\* Scanner.tsx:58-66 a resume timer of run i fires.
ResumeTimer ==
  /\ \E i \in 1 .. Len(effects) :
       /\ effects[i].resumeTimers > 0
       /\ effects' = [effects EXCEPT
                        ![i].resumeTimers = @ - 1,
                        ![i].state = IF effects[i].isComponentMounted /\ @ = "PAUSED"
                                     THEN "SCANNING" ELSE @]
       /\ ev' = EffectEvent("resumeTimer", i, "none")
  /\ UNCHANGED <<notification, isScannerActive, calls>>
  /\ ScannerStep

\* Scanner.tsx:93 the stop() of run i resolves: the camera is released.
StopSettled ==
  /\ \E i \in 1 .. Len(effects) :
       /\ effects[i].stopping
       /\ effects' = [effects EXCEPT ![i].stopping = FALSE, ![i].state = "NOT_STARTED"]
       /\ ev' = EffectEvent("stop", i, "none")
  /\ UNCHANGED <<notification, isScannerActive, calls>>
  /\ ScannerStep

\* ------------------------------------------------------------- specification

\* What an earlier session can have left in the store.
PriorStores == {S \in SUBSET [NIK : NIKs, Nama : {"Jane"}, timestamp : {0}] :
                  \A r1, r2 \in S : r1.NIK = r2.NIK => r1 = r2}

\* No request has run yet, and the component state is as useState and useRef
\* initialise it (Scanner.tsx:180-194).
Fresh ==
  /\ queue = <<>>
  /\ last = NoRequest
  /\ prev = NoRequest
  /\ calls = 0
  /\ attendanceList = <<>>
  /\ notification = NONE
  /\ isProcessingScan = FALSE
  /\ scanTimers = 0
  /\ isDbInitialized = FALSE
  /\ loaded = "none"
  /\ showClearConfirm = FALSE
  /\ showDeleteConfirm = FALSE
  /\ attendeeToDelete = 0
  /\ now = 1
  /\ searchQuery = <<>>
  /\ sortKey = "timestamp"
  /\ sortOrder = "desc"
  /\ csvContent = NONE
  /\ isScannerActive = FALSE
  /\ effects = <<>>

\* A page load: the module handle is unset (db.ts:7), and the database is
\* either new or as an earlier session left it.
Loaded ==
  /\ Fresh
  /\ db = FALSE
  /\ \/ schema = FALSE /\ records = {}
     \/ schema = TRUE /\ records \in PriorStores

\* The store alone, before any call.
Init ==
  /\ Loaded
  /\ opens = <<>>
  /\ openCount = 0
  /\ ev = Event("start", NONE, "ok")

\* The App after its first render: the mount effect (Scanner.tsx:197-209) has
\* called initDB, which has issued the open request.
AppInit ==
  /\ Loaded
  /\ opens = <<"init">>
  /\ openCount = 1
  /\ ev = Event("mount", NONE, "pending")

Next ==
  \/ ApiInitDB
  \/ ApiAdd
  \/ ApiGetAll
  \/ ApiDelete
  \/ ApiClear
  \/ Settle
  \/ OpenSettle

Spec == Init /\ [][Next]_vars

AppNext ==
  \/ ScanSuccess
  \/ ScanTimer
  \/ ManualAdd
  \/ ShowClearConfirm
  \/ CancelClear
  \/ handleConfirmClear
  \/ handleDeleteRequest
  \/ handleConfirmDelete
  \/ handleCancelDelete
  \/ NotificationTimeout
  \/ Tick
  \/ Settle
  \/ OpenSettle

AppSpec == AppInit /\ [][AppNext]_vars

\* The scan path alone: the scanner delivers texts, the store and the timers
\* answer. (No other handler reads or writes isProcessingScan or its timer.)
ScanNext ==
  \/ ScanSuccess
  \/ ScanTimer
  \/ NotificationTimeout
  \/ Tick
  \/ Settle
  \/ OpenSettle

\* The scan path with the scheduling the browser gives: a request that was
\* started fires onsuccess or onerror, an open request settles, and a timer
\* that was set fires.
ScanLive ==
  /\ AppInit
  /\ [][ScanNext]_vars
  /\ WF_stateVars(Settle)
  /\ WF_stateVars(OpenSettle)
  /\ WF_stateVars(ScanTimer)

\* The longest list the list view and the export are tried on.
MaxList == 3

\* The lists of up to MaxList records with one record per NIK.
ViewLists ==
  {l \in UNION {[1 .. n -> ViewRecords] : n \in 0 .. MaxList} :
     \A i, j \in 1 .. Len(l) : l[i].NIK = l[j].NIK => i = j}

\* The App with its list loaded, whatever the list is, and nothing pending.
ViewInit ==
  /\ attendanceList \in ViewLists
  /\ records = Range(attendanceList)
  /\ db = TRUE /\ schema = TRUE
  /\ opens = <<>> /\ openCount = 1
  /\ queue = <<>> /\ last = NoRequest /\ prev = NoRequest
  /\ calls = 0
  /\ notification = NONE
  /\ isProcessingScan = FALSE /\ scanTimers = 0
  /\ isDbInitialized = TRUE /\ loaded = "ok"
  /\ showClearConfirm = FALSE /\ showDeleteConfirm = FALSE /\ attendeeToDelete = 0
  /\ now = 2
  /\ searchQuery = <<>> /\ sortKey = "timestamp" /\ sortOrder = "desc"
  /\ csvContent = NONE
  /\ isScannerActive = FALSE
  /\ effects = <<>>
  /\ ev = Event("render", NONE, "ok")

\* The list view: the user searches and sorts.
ViewNext ==
  \/ SetSearchQuery
  \/ SetSortKey
  \/ ToggleSortOrder

ViewSpec == ViewInit /\ [][ViewNext]_vars

\* The App on a new database, right after its first render.
ScannerInit ==
  /\ Fresh
  /\ db = FALSE /\ schema = FALSE /\ records = {}
  /\ opens = <<"init">> /\ openCount = 1
  /\ ev = Event("mount", NONE, "pending")

\* The Scanner component: the user switches it on and off, the library and
\* the timers answer.
ScannerNext ==
  \/ ToggleScanner
  \/ GetCamerasSettled
  \/ StartSettled
  \/ Decoded
  \/ ResumeTimer
  \/ StopSettled

ScannerSpec == ScannerInit /\ [][ScannerNext]_vars

\* The export: the user presses the button, on any list.
ExportNext == handleExportCSV

ExportSpec == ViewInit /\ [][ExportNext]_vars

\* The opened store with any content, read by GetAll alone.
AnyStores == {S \in SUBSET [NIK : 1 .. MaxStored, Nama : {"Jane"}, timestamp : Times] :
                \A r1, r2 \in S : r1.NIK = r2.NIK => r1 = r2}

\* The state after a successful open by the API-level caller, with any content.
GetAllInit ==
  /\ Fresh
  /\ db = TRUE
  /\ schema = TRUE
  /\ records \in AnyStores
  /\ opens = <<>>
  /\ openCount = 1
  /\ ev = Callback("open", [ctx |-> "api"], "ok", FALSE)

GetAllNext ==
  \/ ApiGetAll
  \/ Settle

GetAllSpec == GetAllInit /\ [][GetAllNext]_vars

\* ------------------------------------------------------------- properties

ApiCalls == {"addAttendee", "getAllAttendees", "deleteAttendee", "clearAttendees"}

\* C1: the store never holds two records with the same NIK, whatever Put,
\* Delete and ClearAll requests have run.
OnePerNIK == \A r1, r2 \in records : r1.NIK = r2.NIK => r1 = r2

\* C1 witness: a Put on a key that was already stored has succeeded.
OnePerNIKWitness ==
  /\ last.op = "put" /\ last.status = "ok"
  /\ last.old # {} /\ last.arg \notin last.old
  /\ last.arg \in records

\* C2: a GetAll that succeeds right after a successful Put(R) returns R, and
\* returns no other record with R's NIK.
PutThenGetAll ==
  (last.op = "getAll" /\ last.status = "ok" /\ prev.op = "put" /\ prev.status = "ok")
  => /\ Cardinality({i \in 1 .. Len(last.value) : last.value[i] = prev.arg}) = 1
     /\ \A i \in 1 .. Len(last.value) :
          last.value[i].NIK = prev.arg.NIK => last.value[i] = prev.arg

\* C2 witness: the Put replaced a record with another displayName, and the
\* GetAll after it returned the new record.
PutThenGetAllWitness ==
  /\ last.op = "getAll" /\ last.status = "ok" /\ prev.op = "put" /\ prev.status = "ok"
  /\ \E o \in prev.old : o.Nama # prev.arg.Nama
  /\ prev.arg \in Range(last.value)

\* C3: a successful GetAll returns every stored record exactly once, in
\* descending order of timestamp.
GetAllSortedDesc ==
  (last.op = "getAll" /\ last.status = "ok")
  => /\ Range(last.value) = records
     /\ Len(last.value) = Cardinality(records)
     /\ \A i, j \in 1 .. Len(last.value) :
          i < j => last.value[i].timestamp >= last.value[j].timestamp

\* C3 witness: GetAll returned three or more records in an order that is not
\* the key order of the store.
GetAllSortedDescWitness ==
  /\ last.op = "getAll" /\ last.status = "ok"
  /\ Len(last.value) >= 3
  /\ \E i, j \in 1 .. Len(last.value) :
       /\ i < j
       /\ last.value[i].NIK > last.value[j].NIK
       /\ last.value[i].timestamp > last.value[j].timestamp

\* C4: a Delete of a NIK that is not stored leaves the store as it is, and
\* resolves unless the engine fails the request.
DeleteAbsentNoOp ==
  [][(ev'.act = "settle" /\ ev'.arg.op = "delete" /\ ev'.arg.arg \notin Keys(records))
     => (records' = records /\ (~ev'.fault => ev'.res = "ok"))]_vars

\* C4 witness: a Delete of an absent NIK resolved on a store that holds records.
DeleteAbsentNoOpWitness ==
  /\ ev.act = "settle" /\ ev.arg.op = "delete" /\ ev.res = "ok"
  /\ last.op = "delete" /\ last.old = {}
  /\ records # {}

\* C5: a GetAll that succeeds right after a successful ClearAll returns the
\* empty sequence.
ClearThenGetAll ==
  (last.op = "getAll" /\ last.status = "ok" /\ prev.op = "clear" /\ prev.status = "ok")
  => last.value = <<>>

\* C5 witness: the store held records before the ClearAll.
ClearThenGetAllWitness ==
  /\ last.op = "getAll" /\ last.status = "ok" /\ prev.op = "clear" /\ prev.status = "ok"
  /\ prev.old # {}
  /\ last.value = <<>>

\* C6: while the handle is unset, Put, GetAll, Delete and ClearAll reject with
\* 'DB not initialized', start no request and leave the store unchanged.
NotInitialized ==
  [][(ev'.act \in ApiCalls /\ ~db)
     => (ev'.res = "DB not initialized" /\ queue' = queue /\ opens' = opens
         /\ records' = records)]_vars

\* C6 witness: a call was rejected after the only open request had failed.
NotInitializedWitness ==
  /\ ev.act \in ApiCalls /\ ev.res = "DB not initialized"
  /\ ~db /\ openCount = 1 /\ opens = <<>>

\* C7: once the handle is set, initDB resolves at once, issues no open request
\* and changes neither the handle nor the store.
OpenIdempotent ==
  [][(ev'.act = "initDB" /\ db)
     => (ev'.res = "ok" /\ opens' = opens /\ openCount' = openCount /\ db' = db
         /\ schema' = schema /\ records' = records /\ queue' = queue)]_vars

\* C7 witness: initDB was called again after the open succeeded.
OpenIdempotentWitness ==
  /\ ev.act = "initDB" /\ ev.res = "ok"
  /\ db /\ openCount = 1 /\ opens = <<>>

\* The NIKs of the records in the in-memory list
ListNIKs == {attendanceList[i].NIK : i \in 1 .. Len(attendanceList)}

\* A call of an ingestion handler that gets as far as the duplicate check.
ReachesGuard(e) ==
  /\ \/ e.act = "handleManualAdd"
     \/ e.act = "handleScanSuccess" /\ e.arg.json /\ ~isProcessingScan
  /\ e.arg.NIK # 0 /\ e.arg.Nama # ""

\* C8: in both ingestion paths, a candidate whose NIK is in the in-memory list
\* raises the 'already checked in' notification, starts no Put and leaves the
\* list and the store unchanged.
DuplicateRejected ==
  [][(ReachesGuard(ev') /\ ev'.arg.NIK \in ListNIKs)
     => (/\ notification' = Notification("is already checked in", "info")
         /\ queue' = queue
         /\ attendanceList' = attendanceList
         /\ records' = records)]_vars

\* C8 witness: a scan of a NIK that is in the list was rejected as a duplicate.
DuplicateRejectedWitness ==
  /\ ev.act = "handleScanSuccess" /\ ev.res = "duplicate"
  /\ ev.arg.NIK \in ListNIKs
  /\ notification = Notification("is already checked in", "info")

\* C9: the in-memory list never holds two records with the same NIK.
NoDuplicateInList ==
  \A i, j \in 1 .. Len(attendanceList) :
    attendanceList[i].NIK = attendanceList[j].NIK => i = j

\* C10: a stored record does not change while its NIK stays in the store.
StoredRecordImmutable ==
  [][\A r \in records : r.NIK \in Keys(records') => r \in records']_vars

\* No open request and no store request is pending.
Quiescent == queue = <<>> /\ opens = <<>>

InvalidText(decodedText) ==
  ~decodedText.json \/ decodedText.NIK = 0 \/ decodedText.Nama = ""

\* What the rejection of a payload amounts to: the error notification is up,
\* no Put was started, and the store and the list are as they were.
Rejected ==
  /\ notification' = Notification("Failed to parse QR code", "error")
  /\ queue' = queue
  /\ records' = records
  /\ attendanceList' = attendanceList

\* C12 as stated: every scan of an invalid payload is rejected with the error
\* notification, starts no Put and leaves the store and the list unchanged.
InvalidScanRejectedAlways ==
  [][(ev'.act = "handleScanSuccess" /\ InvalidText(ev'.arg)) => Rejected]_vars

\* C12: a scan of an invalid payload that the debounce gate lets through is
\* rejected with the error notification, starts no Put and leaves the store
\* and the list unchanged. (A scan that arrives while the gate is closed is
\* dropped before it is parsed and raises nothing.)
InvalidScanRejected ==
  [][(ev'.act = "handleScanSuccess" /\ InvalidText(ev'.arg) /\ ~isProcessingScan)
     => Rejected]_vars

\* C12 witness: a payload that parses but has no Nama was rejected while the
\* list and the store held a record.
InvalidScanRejectedWitness ==
  /\ ev.act = "handleScanSuccess" /\ ev.res = "invalid"
  /\ ev.arg.json /\ ev.arg.NIK # 0 /\ ev.arg.Nama = ""
  /\ notification = Notification("Failed to parse QR code", "error")
  /\ attendanceList # <<>> /\ records # {}

\* The step e is the failure of a Put of an ingestion path: addAttendee
\* rejected at once, or its request fired onerror.
PutFailed(e, ctx, handler) ==
  \/ e.act = "settle" /\ e.arg.op = "put" /\ e.arg.ctx = ctx /\ e.res # "ok"
  \/ e.act = handler /\ e.res = "DB not initialized"

\* C13: when the Put of the scan path or of the manual path fails, an error
\* notification is raised and the list is left as it was; the manual path has
\* no gate to reopen, and the scan path has set the timer that reopens its
\* gate, so a later add is processed.
PutFailureHandled ==
  [][/\ PutFailed(ev', "manual", "handleManualAdd")
        => /\ notification' = Notification("Failed to save attendee", "error")
           /\ attendanceList' = attendanceList
           /\ UNCHANGED scanVars
     /\ PutFailed(ev', "scan", "handleScanSuccess")
        => /\ notification' = Notification("Failed to parse QR code", "error")
           /\ attendanceList' = attendanceList
           /\ scanTimers' = scanTimers + 1]_vars

\* C13 witness: the Put of a scan fired onerror while the list held a record,
\* and the timer that reopens the gate is set.
PutFailureHandledWitness ==
  /\ ev.act = "settle" /\ ev.arg.op = "put" /\ ev.arg.ctx = "scan" /\ ev.fault
  /\ notification.type = "error"
  /\ attendanceList # <<>> /\ ev.arg.arg.NIK \notin ListNIKs
  /\ isProcessingScan /\ scanTimers = 1

\* The handlers of the App that call the store.
StoreHandlers == {"handleScanSuccess", "handleManualAdd", "handleConfirmClear",
                  "handleConfirmDelete"}

\* The contexts in which the App awaits a store request.
AppContexts == {"scan", "manual", "load", "confirmClear", "confirmDelete"}

\* C14: whichever store operation of the App fails (the Open and the GetAll of
\* the mount effect, a Put, a Delete, a ClearAll; by onerror or by the
\* 'DB not initialized' rejection), the step that handles the failure raises
\* an error notification and starts no store operation.
FailureHandledNoRetry ==
  [][/\ (ev'.act = "open" /\ ev'.arg.ctx = "init" /\ ev'.res # "ok")
        => /\ notification' = Notification("Offline storage is not available", "error")
           /\ queue' = queue /\ opens' = Tail(opens) /\ openCount' = openCount
     /\ (ev'.act = "settle" /\ ev'.arg.ctx \in AppContexts /\ ev'.res # "ok")
        => /\ notification' # NONE /\ notification'.type = "error"
           /\ queue' = Tail(queue) /\ opens' = opens /\ openCount' = openCount
     /\ (ev'.act \in StoreHandlers /\ ev'.res = "DB not initialized")
        => /\ notification' # NONE /\ notification'.type = "error"
           /\ queue' = queue /\ opens' = opens /\ openCount' = openCount]_vars

\* C14 witness: the GetAll of the mount effect fired onerror; the notification
\* is up and nothing is pending.
FailureHandledNoRetryWitness ==
  /\ ev.act = "settle" /\ ev.arg.ctx = "load" /\ ev.fault
  /\ notification = Notification("Could not load saved attendance data", "error")
  /\ loaded = "failed" /\ Quiescent

\* The Open of the mount effect has failed: no handle, and no open request left.
OpenFailed == ~db /\ opens = <<>>

\* C15: after the Open has failed, a valid check-in whose NIK is not in the
\* list, by scan or by the form, is added to the in-memory list.
UsableInMemory ==
  [][(OpenFailed /\ ReachesGuard(ev') /\ ev'.arg.NIK \notin ListNIKs)
     => ev'.arg.NIK \in {attendanceList'[i].NIK : i \in 1 .. Len(attendanceList')}]_vars

\* The Puts of the scan path that have not settled yet.
ScanPutsInFlight == {i \in 1 .. Len(queue) : queue[i].ctx = "scan"}

\* A scan has been accepted and its debounce timer has not fired yet: its Put
\* is in flight, or its timer is set.
InDebounceWindow == ScanPutsInFlight # {} \/ scanTimers > 0

\* C16: from the acceptance of a scan until its debounce timer fires, a
\* further scan is dropped: it starts no Put, raises no notification and
\* changes no state of the App or of the store. So there is never more than
\* one Put of the scan path in flight, and never more than one timer.
ScanDebounced ==
  /\ [](Cardinality(ScanPutsInFlight) + scanTimers <= 1)
  /\ [][(ev'.act = "handleScanSuccess" /\ InDebounceWindow)
        => /\ UNCHANGED <<queue, records, opens, db>>
           /\ UNCHANGED <<attendanceList, notification, isDbInitialized, loaded>>
           /\ UNCHANGED scanVars
           /\ UNCHANGED dialogVars]_vars

\* C16 witness: a valid scan of a new NIK was dropped while the Put of the
\* scan before it was still in flight.
ScanDebouncedWitness ==
  /\ ev.act = "handleScanSuccess" /\ ev.res = "dropped"
  /\ ev.arg.json /\ ev.arg.NIK # 0 /\ ev.arg.Nama # ""
  /\ ScanPutsInFlight # {} /\ scanTimers = 0
  /\ ev.arg.NIK \notin ListNIKs
  /\ \A i \in ScanPutsInFlight : queue[i].arg.NIK # ev.arg.NIK

\* The text occurs in the field at some offset, letter case apart.
ContainsIgnoringCase(field, text) ==
  \E k \in 0 .. Len(field) - Len(text) :
    \A i \in 1 .. Len(text) : LowerChar(field[k + i]) = LowerChar(text[i])

\* The record is one the search text selects.
Selected(r) ==
  ContainsIgnoringCase(r.Nama, searchQuery) \/ ContainsIgnoringCase(r.NIK, searchQuery)

\* How often the record occurs in the list
Count(list, r) == Cardinality({i \in 1 .. Len(list) : list[i] = r})

\* The order of two records by the chosen sort field
KeyCompare(a, b) ==
  IF sortKey = "timestamp" THEN a.timestamp - b.timestamp
  ELSE LocaleCompare(a[sortKey], b[sortKey])

ViewActs == {"setSearchQuery", "setSortKey", "toggleSortOrder"}

\* C17: the projection holds exactly the records of the list whose Nama or
\* NIK contains the search text, letter case apart, each as often as the list
\* holds it; it is ordered by the chosen field in the chosen direction; and
\* computing it leaves the list as it is.
ProjectionCorrect ==
  /\ [](LET view == sortedAndFilteredAttendees
        IN /\ \A r \in ViewRecords :
                Count(view, r) = IF Selected(r) THEN Count(attendanceList, r) ELSE 0
           /\ \A i, j \in 1 .. Len(view) :
                i < j => IF sortOrder = "asc" THEN KeyCompare(view[i], view[j]) <= 0
                         ELSE KeyCompare(view[i], view[j]) >= 0)
  /\ [][ev'.act \in ViewActs => attendanceList' = attendanceList]_vars

\* C17 witness: the search text, in another letter case than the names, left
\* one record of three out, and the two shown are in the reverse of their
\* order in the list.
ProjectionCorrectWitness ==
  /\ ev.act \in ViewActs
  /\ searchQuery = <<"A", "B">> /\ sortKey = "Nama" /\ sortOrder = "asc"
  /\ Len(attendanceList) = 3
  /\ Len(sortedAndFilteredAttendees) = 2
  /\ sortedAndFilteredAttendees[1].Nama = <<"a", "B">>
  /\ sortedAndFilteredAttendees[2].Nama = <<"A", "b">>
  /\ \E i, j \in 1 .. 3 :
       /\ i < j
       /\ attendanceList[i] = sortedAndFilteredAttendees[2]
       /\ attendanceList[j] = sortedAndFilteredAttendees[1]

\* A row whose NIK and Nama are both in quote characters, with the quote
\* characters inside them doubled.
QuotedRow(attendee) ==
  <<InQuotes(ReplaceQuotes(attendee.NIK)), InQuotes(ReplaceQuotes(attendee.Nama)),
    InQuotes(ToLocaleString(attendee.timestamp))>>

RECURSIVE QuotedLines(_)
QuotedLines(list) ==
  IF list = <<>> THEN <<>>
  ELSE <<Join(QuotedRow(Head(list)), ",")>> \o QuotedLines(Tail(list))

\* C18: the exported document is the header row and then one row per record
\* of the list, in ascending order of timestamp, with the NIK and the Nama of
\* each row in quote characters and the quote characters inside them doubled.
ExportQuotesStrings ==
  csvContent # NONE
  => csvContent = Join(<<Join(headers, ",")>>
                       \o QuotedLines(Sort(attendanceList, "export")), "\n")

\* C19: whenever a scan has been accepted (the gate is closed), the gate is
\* open again later: whatever the scan came to, its Put settles if it started
\* one, and its timer fires.
GateReopens == isProcessingScan ~> ~isProcessingScan

\* C19 witness: the timer of a scan that ended in the error notification fired
\* and opened the gate.
GateReopensWitness ==
  /\ ev.act = "scanTimer" /\ ~isProcessingScan /\ scanTimers = 0
  /\ notification = Notification("Failed to parse QR code", "error")
  /\ db /\ loaded = "ok" /\ attendanceList = <<>> /\ records = {}

\* C20: once a run of the Scanner's effect is unmounted and nothing of it is
\* pending any more, its camera scanner is stopped; and no step of a run that
\* is unmounted delivers onScanSuccess, onReady or onScanError to the App.
ScannerStoppedAfterUnmount ==
  /\ \A i \in 1 .. Len(effects) :
       (/\ ~effects[i].isComponentMounted
        /\ effects[i].pc = "done" /\ ~effects[i].stopping)
       => effects[i].state = "NOT_STARTED"
  /\ (ev.act # "mount" /\ ev.res \in ScannerCallbacks) => ev.arg.mounted

\* The step started a Delete: the queue has grown by a delete request.
DeleteIssued ==
  /\ Len(queue') = Len(queue) + 1
  /\ queue'[Len(queue')].op = "delete"

\* The step started no store operation and left the store and the list alone.
NothingDone ==
  /\ queue' = queue /\ opens' = opens
  /\ records' = records
  /\ attendanceList' = attendanceList

\* C21: a Delete is started only by a confirm while a delete request is
\* pending, and for the NIK of that request; a cancel, and a confirm with no
\* request pending, start no store operation and leave the store and the list
\* as they are; and a Delete that fails, at once or by onerror, leaves the
\* list as it is.
DeleteConfirmGated ==
  [][/\ DeleteIssued
        => /\ ev'.act = "handleConfirmDelete"
           /\ showDeleteConfirm /\ attendeeToDelete # 0
           /\ queue'[Len(queue')].arg = attendeeToDelete
     /\ (\/ ev'.act = "handleCancelDelete"
         \/ ev'.act = "handleConfirmDelete" /\ attendeeToDelete = 0)
        => NothingDone
     /\ (\/ ev'.act = "handleConfirmDelete" /\ ev'.res = "DB not initialized"
         \/ /\ ev'.act = "settle" /\ ev'.arg.op = "delete"
            /\ ev'.arg.ctx = "confirmDelete" /\ ev'.res # "ok")
        => attendanceList' = attendanceList]_vars

\* C21 witness: the user asked to delete a record of the list and cancelled;
\* the record is still in the list and in the store, and nothing is pending.
DeleteConfirmGatedWitness ==
  /\ ev.act = "handleCancelDelete"
  /\ ~showDeleteConfirm /\ attendeeToDelete = 0
  /\ attendanceList # <<>> /\ ListNIKs = Keys(records)
  /\ Quiescent

====
